---- MODULE Spec2Model ----
(***************************************************************************)
(* Project lifecycle and communication thread of the nixicon platform.     *)
(* The stored documents are the state; every route handler is split at    *)
(* the places where it awaits the database, so that requests interleave   *)
(* the way the event loop lets them.                                      *)
(***************************************************************************)
EXTENDS Integers, Sequences, FiniteSets, Bags, TLC

\* ---------------------------------------------------------------- bounds
MaxProjects == 1      \* projects ever created
MaxInflight == 1      \* requests being served at the same time
MaxThread   == 2      \* entries of one communication thread
MaxClock    == 2      \* readings of the wall clock
MaxRacing   == 2      \* requests served at the same time where requests race
MaxEntries  == 4      \* entries of one thread where appends race
MaxList     == 5      \* entries of a thread that is listed

\* ------------------------------------------------------------- constants
None == "none"        \* undefined / absent reference
Null == 0             \* null Date
MaxContent == 2000    \* isLength({ min: 1, max: 2000 })

Statuses == {"draft", "prototype", "in-development", "testing", "deployed", "cancelled"}
EntryTypes == {"message", "file", "milestone", "status-update"}

\* ids that pass isMongoId(); GhostId belongs to no stored user
UserIds == {"u1", "d1", "a1"}
GhostId == "x9"

\* A string a client sends: its text without the whitespace around it, the
\* number of whitespace characters around it, and the length of the text.
Str(text, pad, len) == [text |-> text, pad |-> pad, len |-> len]

NoStr == Str(None, 0, 0)

\* s.length
Length(s) == s.len + s.pad

\* express-validator's trim() sanitizer: req.body keeps the trimmed string
trim(s) == [s EXCEPT !.pad = 0]

\* isLength({ min, max })
isLength(s, min, max) == min <= Length(s) /\ Length(s) <= max

NoTimeline == [plannedStart |-> Null, plannedEnd |-> Null, actualStart |-> Null, actualEnd |-> Null]

\* A prompt: the keywords its lower-case text includes, and its length.
NoPrompt == [words |-> {}, pad |-> 0, len |-> 0]

\* A request body.  has = the fields the client sent.
NoBody ==
    [has |-> {}, title |-> None, timeline |-> NoTimeline, status |-> None,
     owner |-> None, assignedDeveloper |-> None, developerId |-> None,
     content |-> NoStr, type |-> None, notes |-> NoStr, category |-> None,
     prompt |-> NoPrompt, messageId |-> 0, page |-> 0, limit |-> 0,
     description |-> None, platform |-> None, features |-> << >>, design |-> None,
     technical |-> None, budget |-> [planned |-> 0, actual |-> 0], priority |-> None,
     communication |-> << >>, email |-> None, token |-> None]

\* A request being served: the handler, the authenticated user, the project
\* it addresses, its position, the body, and the values it computed so far.
NoRequest ==
    [op |-> None, actor |-> None, pid |-> 0, pc |-> None, body |-> NoBody,
     t |-> Null, amount |-> 0, features |-> << >>]

VARIABLES
    users,      \* User collection: id -> document
    projects,   \* Project collection: id -> document
    inflight,   \* bag of requests between two awaits
    now,        \* wall clock
    nextId,     \* next fresh project id
    event       \* the step just taken and the response it sent, if any

vars == <<users, projects, inflight, now, nextId, event>>

\* ------------------------------------------------------------ documents
Entry(type, content, author, t) ==
    [type |-> type, content |-> content, author |-> author, timestamp |-> t, readBy |-> << >>]

\* s.length of the strings the handlers build entry texts from (a template
\* counts the blank or the punctuation that joins it to what follows)
Chars(s) ==
    CASE s = None -> 0
      [] s \in {"u1", "d1", "a1", "50"} -> 2
      [] s = "draft" -> 5
      [] s = "testing" -> 7
      [] s \in {"deployed", "archived"} -> 8
      [] s \in {"prototype", "cancelled"} -> 9
      [] s = "in-development" -> 14
      [] s = "Status updated to" -> 18
      [] s = "Project assigned to" -> 20
      [] s = "Project created successfully" -> 28
      [] s = "Payment confirmed. Project moved to prototype phase." -> 57
      [] OTHER -> 1

\* Text of an entry: the template, what is interpolated into it, and the
\* length of the whole.
Text(tpl, arg) == [tpl |-> tpl, arg |-> arg, len |-> Chars(tpl) + Chars(arg)]

\* the text of an entry made of a string a client sent
FromStr(s) == [tpl |-> s.text, arg |-> None, len |-> Length(s)]

NoText == Text(None, None)

Exists(pid) == pid \in DOMAIN projects

Store(pid, doc) == [q \in DOMAIN projects \cup {pid} |-> IF q = pid THEN doc ELSE projects[q]]

Requests == BagToSet(inflight)

\* What a step shows to an observer: the handler and its caller, the step,
\* the response sent (None while the request goes on) and the request's
\* main argument.
Arg(r) ==
    CASE r.op = "status" -> r.body.status
      [] r.op = "assign" -> r.body.developerId
      [] r.op = "create" -> r.body.owner
      [] r.op \in {"register", "developer", "resend"} -> r.body.email
      [] r.op = "verify" -> r.body.token
      [] OTHER -> None

Step(step, code, r) ==
    [step |-> step, code |-> code, op |-> r.op, actor |-> r.actor, pid |-> r.pid, arg |-> Arg(r),
     sent |-> [type |-> None, content |-> NoText],
     query |-> [page |-> r.body.page, limit |-> r.body.limit], prompt |-> r.body.prompt,
     data |-> << >>]

\* a step of a request that asks for an entry: sent is the entry asked for
StepSent(step, code, r, type, content) ==
    [Step(step, code, r) EXCEPT !.sent = [type |-> type, content |-> content]]

Advance(r, pc) == (inflight (-) SetToBag({r})) (+) SetToBag({[r EXCEPT !.pc = pc]})

Finish(r) == inflight (-) SetToBag({r})

CanStartWithin(k) == BagCardinality(inflight) < k

CanStart == CanStartWithin(MaxInflight)

\* room left in the thread for the entries that requests in flight will append
Appenders(pid) ==
    LET rs == {r \in Requests : r.pid = pid /\ r.op \in {"create", "status", "assign", "payment", "message", "communication"}}
    IN  IF rs = {} THEN 0 ELSE BagCardinality([r \in rs |-> inflight[r]])

RoomWithin(pid, n) ==
    (IF Exists(pid) THEN Len(projects[pid].communication) ELSE 0) + Appenders(pid) < n

Room(pid) == RoomWithin(pid, MaxThread)

\* ------------------------------------------------------------ middleware
\* auth: every actor below is an authenticated, stored user.
adminAuth(u) == users[u].role = "admin"

developerAuth(u) == users[u].role \in {"developer", "admin"}

\* ----------------------------------------------------------------- Init
\* the stored users: a client, a developer and an admin
Accounts ==
    [u \in UserIds |->
        [role |-> CASE u = "a1" -> "admin"
                    [] u = "d1" -> "developer"
                    [] OTHER -> "user",
         name |-> u]]

Init ==
    /\ users = Accounts
    /\ projects = << >>
    /\ inflight = EmptyBag
    /\ now = 1
    /\ nextId = 1
    /\ event = Step("init", None, NoRequest)

Tick ==
    /\ now < MaxClock
    /\ now' = now + 1
    /\ event' = Step("tick", None, NoRequest)
    /\ UNCHANGED <<users, projects, inflight, nextId>>

\* the entry pushed twice
addCommunicationTwice(doc, type, content, author) ==
    [doc EXCEPT !.communication = Append(Append(@, Entry(type, content, author, now)),
                                         Entry(type, content, author, now))]

\* Project.prototype.addCommunication: push one entry and save; the save
\* sends the push alone, so entries appended meanwhile by others are kept.
addCommunication(doc, type, content, author) ==
    [doc EXCEPT !.communication = Append(@, Entry(type, content, author, now))]

\* Project schema, communication entries: type is one of the four kinds and
\* content is a text of bounded length; a save that breaks this rejects.
ValidEntry(type, content) ==
    /\ type \in EntryTypes
    /\ 1 <= content.len /\ content.len <= MaxContent

\* The last await of a handler: append the entry, then answer with code.
\* On a document deleted meanwhile, or an entry the schema refuses, the save
\* rejects and the catch answers 500.
AddCommunication(r, type, content, code) ==
    /\ r \in Requests
    /\ IF Exists(r.pid) /\ ValidEntry(type, content)
         THEN /\ projects' = Store(r.pid, addCommunication(projects[r.pid], type, content, r.actor))
              /\ event' = StepSent("addCommunication", code, r, type, content)
         ELSE /\ projects' = projects
              /\ event' = StepSent("addCommunication", "ServerError", r, type, content)
    /\ inflight' = Finish(r)
    /\ UNCHANGED <<users, now, nextId>>

\* Any await may reject (database or network failure, aborted request): the
\* handler's catch answers 500 and nothing more is written.
Fail ==
    \E r \in Requests :
        /\ inflight' = Finish(r)
        /\ event' = Step("fail", "ServerError", r)
        /\ UNCHANGED <<users, projects, now, nextId>>


\* ------------------------------------------------- POST /api/projects
\* Project schema: the defaults a new document gets for fields the data
\* does not set.
ProjectDefaults ==
    [owner |-> None, assignedDeveloper |-> None, status |-> "draft", title |-> None,
     timeline |-> NoTimeline, budget |-> [planned |-> 0, actual |-> 0],
     communication |-> << >>, category |-> None, features |-> << >>,
     aiGenerated |-> [isAiGenerated |-> FALSE, prompt |-> NoPrompt, generatedAt |-> Null],
     description |-> None, platform |-> None, design |-> None, technical |-> None,
     priority |-> "medium"]

\* the spread written after the owner: { owner: req.userId, ...req.body }
projectDataBodyLast(body, userId) ==
    IF "owner" \in body.has THEN body ELSE [body EXCEPT !.owner = userId, !.has = @ \cup {"owner"}]

\* const projectData = { ...req.body, owner: req.userId }
projectData(body, userId) ==
    [body EXCEPT !.owner = userId, !.has = @ \cup {"owner"}]

\* new Project(projectData): every schema path the data carries is set
NewProject(data) ==
    [ProjectDefaults EXCEPT
        !.owner = IF "owner" \in data.has THEN data.owner ELSE @,
        !.assignedDeveloper = IF "assignedDeveloper" \in data.has THEN data.assignedDeveloper ELSE @,
        !.status = IF "status" \in data.has THEN data.status ELSE @,
        !.title = IF "title" \in data.has THEN data.title ELSE @,
        !.timeline = IF "timeline" \in data.has THEN data.timeline ELSE @,
        !.category = IF "category" \in data.has THEN data.category ELSE @]

Categories == {"mobile-app", "web-app", "website", "automation", "ai-tool", "other"}

\* body('title') ..., body('category').isIn([...])
CreateValid(body) ==
    /\ "title" \in body.has
    /\ "category" \in body.has /\ body.category \in Categories

CreateBodies ==
    { NoBody,
      [NoBody EXCEPT !.has = {"title", "category"}, !.title = "Shop", !.category = "web-app"],
      [NoBody EXCEPT !.has = {"title", "category", "owner", "status", "assignedDeveloper"},
                     !.title = "Shop", !.category = "web-app",
                     !.owner = "a1", !.status = "testing", !.assignedDeveloper = "u1"] }

\* the users who file projects
Creators == {"u1", "d1"}

CreateSave ==
    \E actor \in Creators, body \in CreateBodies :
        LET r == [NoRequest EXCEPT !.op = "create", !.actor = actor, !.pid = nextId,
                                   !.pc = "saved", !.body = body]
        IN  /\ CanStart
            /\ nextId <= MaxProjects
            /\ IF ~CreateValid(body)
                 THEN /\ event' = Step("validate", "BadRequest", [r EXCEPT !.pid = 0])
                      /\ UNCHANGED <<users, projects, inflight, now, nextId>>
                 ELSE /\ projects' = Store(nextId, NewProject(projectData(body, actor)))
                      /\ nextId' = nextId + 1
                      /\ inflight' = inflight (+) SetToBag({r})
                      /\ event' = Step("save", None, r)
                      /\ UNCHANGED <<users, now>>

CreateAddCommunication ==
    \E r \in Requests :
        /\ r.op = "create" /\ r.pc = "saved"
        /\ AddCommunication(r, "status-update", Text("Project created successfully", None), "Created")

\* ------------------------------------ PUT /api/admin/projects/:id/status
\* the filter of the other project routes, which lets the owner in
StatusFilterWithOwner(actor, doc) ==
    \/ doc.owner = actor
    \/ doc.assignedDeveloper = actor
    \/ users[actor].role = "admin"

\* Project.findOne({ _id, $or: [{ assignedDeveloper: req.userId }, ...(admin ? [{}] : [])] })
StatusFilter(actor, doc) ==
    \/ doc.assignedDeveloper = actor
    \/ users[actor].role = "admin"

\* the status written without the end date
StatusAssignNoEnd(doc, status, t) ==
    [doc EXCEPT !.status = status]

\* project.status = status; if (status === 'deployed') timeline.actualEnd = new Date()
StatusAssign(doc, status, t) ==
    [doc EXCEPT !.status = status,
                !.timeline.actualEnd = IF status = "deployed" THEN t ELSE @]

StatusInputs == {"prototype", "deployed", "cancelled", "archived"}

StatusBodies == { [NoBody EXCEPT !.has = {"status"}, !.status = status] : status \in StatusInputs }

\* `Status updated to ${status}${notes ? `: ${notes}` : ''}`
StatusText(body) ==
    IF "notes" \in body.has /\ Length(body.notes) > 0
      THEN [Text("Status updated to", body.status) EXCEPT !.len = @ + 2 + Length(body.notes)]
      ELSE Text("Status updated to", body.status)

\* the handler up to its first await, with at most k requests in flight,
\* threads of at most n entries and the bodies it is sent
StatusFindOn(ids, k, n, bodies) ==
    \E actor \in UserIds, pid \in ids, body \in bodies :
        LET status == body.status
            r == [NoRequest EXCEPT !.op = "status", !.actor = actor, !.pid = pid, !.pc = "found",
                                   !.body = body,
                                   !.t = IF status = "deployed" THEN now ELSE Null]
            code == CASE ~developerAuth(actor) -> "AccessDenied"
                      [] status \notin Statuses -> "BadRequest"
                      [] ~Exists(pid) -> "NotFound"
                      [] ~StatusFilter(actor, projects[pid]) -> "NotFound"
                      [] OTHER -> None
        IN  /\ CanStartWithin(k)
            /\ RoomWithin(pid, n)
            /\ event' = StepSent("findOne", code, r, "status-update", StatusText(body))
            /\ inflight' = IF code = None THEN inflight (+) SetToBag({r}) ELSE inflight
            /\ UNCHANGED <<users, projects, now, nextId>>

StatusFindFor(k, n, bodies) == StatusFindOn(1..MaxProjects, k, n, bodies)

StatusFind == StatusFindFor(MaxInflight, MaxThread, StatusBodies)

StatusSave ==
    \E r \in Requests :
        /\ r.op = "status" /\ r.pc = "found"
        /\ IF Exists(r.pid)
             THEN /\ projects' = Store(r.pid, StatusAssign(projects[r.pid], r.body.status, r.t))
                  /\ inflight' = Advance(r, "saved")
                  /\ event' = Step("save", None, r)
             ELSE /\ projects' = projects
                  /\ inflight' = Finish(r)
                  /\ event' = Step("save", "ServerError", r)
        /\ UNCHANGED <<users, now, nextId>>

StatusAddCommunication ==
    \E r \in Requests :
        /\ r.op = "status" /\ r.pc = "saved"
        /\ AddCommunication(r, "status-update", StatusText(r.body), "Ok")

\* ------------------------------------ PUT /api/admin/projects/:id/assign
\* User.findOne({ _id: developerId, role: 'developer' })
FindDeveloper(developerId) ==
    developerId \in DOMAIN users /\ users[developerId].role = "developer"

\* Project.findByIdAndUpdate(projectId, { assignedDeveloper, status: 'in-development' })
AssignPatch(doc, developerId) ==
    [doc EXCEPT !.assignedDeveloper = developerId, !.status = "in-development"]

\* The developer lookup and the update are two awaits; no handler changes
\* or removes a user, so the lookup's answer still holds at the update.
AssignUpdate ==
    \E actor \in UserIds, pid \in 1..MaxProjects, developerId \in UserIds \cup {GhostId} :
        LET r == [NoRequest EXCEPT !.op = "assign", !.actor = actor, !.pid = pid, !.pc = "saved",
                                   !.body = [NoBody EXCEPT !.has = {"developerId"},
                                                           !.developerId = developerId]]
            code == CASE ~adminAuth(actor) -> "AccessDenied"
                      [] ~FindDeveloper(developerId) -> "BadRequest"
                      [] ~Exists(pid) -> "NotFound"
                      [] OTHER -> None
        IN  /\ CanStart
            /\ Room(pid)
            /\ event' = Step("findByIdAndUpdate", code, r)
            /\ IF code = None
                 THEN /\ projects' = Store(pid, AssignPatch(projects[pid], developerId))
                      /\ inflight' = inflight (+) SetToBag({r})
                 ELSE UNCHANGED <<projects, inflight>>
            /\ UNCHANGED <<users, now, nextId>>

AssignAddCommunication ==
    \E r \in Requests :
        /\ r.op = "assign" /\ r.pc = "saved"
        /\ AddCommunication(r, "status-update",
                            Text("Project assigned to", users[r.body.developerId].name), "Ok")


\* -------------------------------------- POST /api/payments/confirm-payment
\* stripe.paymentIntents.retrieve: what the payment gateway answers
PaymentIntents ==
    { [status |-> "succeeded", amount |-> 5000],
      [status |-> "processing", amount |-> 5000] }

\* the owner filter that lets the assigned developer in as well
OwnerFilterWithDeveloper(actor, doc) ==
    doc.owner = actor \/ doc.assignedDeveloper = actor

\* Project.findOne({ _id: projectId, owner: req.userId })
OwnerFilter(actor, doc) == doc.owner = actor

\* project.budget.actual = paymentIntent.amount / 100; project.status = 'prototype'
ConfirmAssign(doc, amount) ==
    [doc EXCEPT !.budget.actual = amount \div 100, !.status = "prototype"]

ConfirmFind ==
    \E actor \in UserIds, pid \in 1..MaxProjects, paymentIntent \in PaymentIntents :
        LET r == [NoRequest EXCEPT !.op = "payment", !.actor = actor, !.pid = pid, !.pc = "found",
                                   !.amount = paymentIntent.amount]
            code == CASE paymentIntent.status # "succeeded" -> "BadRequest"
                      [] ~Exists(pid) -> "NotFound"
                      [] ~OwnerFilter(actor, projects[pid]) -> "NotFound"
                      [] OTHER -> None
        IN  /\ CanStart
            /\ Room(pid)
            /\ event' = Step("findOne", code, r)
            /\ inflight' = IF code = None THEN inflight (+) SetToBag({r}) ELSE inflight
            /\ UNCHANGED <<users, projects, now, nextId>>

ConfirmSave ==
    \E r \in Requests :
        /\ r.op = "payment" /\ r.pc = "found"
        /\ IF Exists(r.pid)
             THEN /\ projects' = Store(r.pid, ConfirmAssign(projects[r.pid], r.amount))
                  /\ inflight' = Advance(r, "saved")
                  /\ event' = Step("save", None, r)
             ELSE /\ projects' = projects
                  /\ inflight' = Finish(r)
                  /\ event' = Step("save", "ServerError", r)
        /\ UNCHANGED <<users, now, nextId>>

ConfirmAddCommunication ==
    \E r \in Requests :
        /\ r.op = "payment" /\ r.pc = "saved"
        /\ AddCommunication(r, "status-update",
                            Text("Payment confirmed. Project moved to prototype phase.",
                                 ToString(r.amount \div 100)), "Ok")

\* ------------------------------------------ POST /api/payments/webhook
\* process.env.STRIPE_WEBHOOK_SECRET: unset, or the endpoint's secret
WebhookSecrets == {None, "whsec"}

\* the stripe-signature header: absent, made with the endpoint's secret, or
\* made with another
Signatures == {None, "whsec", "forged"}

EventTypes ==
    {"payment_intent.succeeded", "invoice.payment_succeeded", "customer.subscription.updated",
     "charge.refunded"}

constructEventAlways(sig, secret) == TRUE

\* stripe.webhooks.constructEvent(req.body, sig, secret) returns the event
\* when the signature was made with the secret, and throws otherwise
constructEvent(sig, secret) == secret # None /\ sig = secret

\* switch (event.type): the branch taken; each logs and changes nothing
Branch(type) ==
    IF type \in {"payment_intent.succeeded", "invoice.payment_succeeded",
                 "customer.subscription.updated"}
      THEN type ELSE "default"

Webhook ==
    \E sig \in Signatures, secret \in WebhookSecrets, type \in EventTypes :
        LET r == [NoRequest EXCEPT !.op = "webhook"]
            answer == IF constructEvent(sig, secret)
                        THEN [Step("constructEvent", "Ok", r) EXCEPT !.data = <<Branch(type)>>]
                        ELSE Step("constructEvent", "BadRequest", r)
        IN  /\ event' = [signature |-> sig, secret |-> secret, type |-> type] @@ answer
            /\ UNCHANGED <<users, projects, inflight, now, nextId>>

\* a project is filed and paid for while webhooks come in
WebhookNext ==
    \/ Tick
    \/ Fail
    \/ CreateSave
    \/ CreateAddCommunication
    \/ ConfirmFind
    \/ ConfirmSave
    \/ ConfirmAddCommunication
    \/ Webhook

SpecWebhook == Init /\ [][WebhookNext]_vars

\* ------------------------------------------------ PUT /api/projects/:id
allowedUpdatesAndStatus ==
    {"title", "description", "category", "platform", "features", "design", "technical",
     "timeline", "budget", "status", "priority"}

allowedUpdates ==
    {"title", "description", "category", "platform", "features", "design", "technical",
     "timeline", "budget"}

\* allowedUpdates.forEach(field => if (req.body[field] !== undefined) project[field] = req.body[field])
UpdateAssign(doc, body) ==
    [field \in DOMAIN doc |->
        IF field \in allowedUpdates \cap body.has THEN body[field] ELSE doc[field]]

UpdateBodies ==
    { [NoBody EXCEPT !.has = {"title", "timeline", "status", "owner", "assignedDeveloper"},
                     !.title = "Store",
                     !.timeline = [NoTimeline EXCEPT !.plannedStart = 1],
                     !.status = "deployed", !.owner = "a1", !.assignedDeveloper = "d1"] }

\* every field a body may carry, set to a value the seeded project does not
\* have
FullBody ==
    [NoBody EXCEPT
        !.title = "Store", !.description = "a store", !.category = "website",
        !.platform = "ios", !.features = <<"Wishlist">>, !.design = "dark",
        !.technical = "node", !.timeline = [NoTimeline EXCEPT !.plannedStart = 1],
        !.budget = [planned |-> 900, actual |-> 0],
        !.status = "deployed", !.priority = "urgent", !.owner = "a1", !.assignedDeveloper = "a1",
        !.communication = << >>]

BodyFields ==
    allowedUpdates \cup {"status", "priority", "owner", "assignedDeveloper", "communication"}

\* the body of the client's edit form
EditForm == {"title", "description", "status", "priority"}

\* bodies that carry no field, one field, the fields of the edit form, or
\* every field
FieldBodies ==
    { [FullBody EXCEPT !.has = has] :
        has \in {h \in SUBSET BodyFields : Cardinality(h) <= 1} \cup {EditForm, BodyFields} }

UpdateFindOn(ids, bodies) ==
    \E actor \in UserIds, pid \in ids, body \in bodies :
        LET r == [NoRequest EXCEPT !.op = "update", !.actor = actor, !.pid = pid, !.pc = "found",
                                   !.body = body]
            code == CASE ~Exists(pid) -> "NotFound"
                      [] ~OwnerFilter(actor, projects[pid]) -> "NotFound"
                      [] OTHER -> None
        IN  /\ CanStart
            /\ event' = Step("findOne", code, r)
            /\ inflight' = IF code = None THEN inflight (+) SetToBag({r}) ELSE inflight
            /\ UNCHANGED <<users, projects, now, nextId>>

UpdateFind == UpdateFindOn(1..MaxProjects, UpdateBodies)

\* save() sends the paths the handler modified, not the document it read
UpdateSave ==
    \E r \in Requests :
        /\ r.op = "update" /\ r.pc = "found"
        /\ IF Exists(r.pid)
             THEN /\ projects' = Store(r.pid, UpdateAssign(projects[r.pid], r.body))
                  /\ event' = Step("save", "Ok", r)
             ELSE /\ projects' = projects
                  /\ event' = Step("save", "ServerError", r)
        /\ inflight' = Finish(r)
        /\ UNCHANGED <<users, now, nextId>>

\* --------------------------------------------- DELETE /api/projects/:id
DeleteFindOn(ids) ==
    \E actor \in UserIds, pid \in ids :
        LET r == [NoRequest EXCEPT !.op = "delete", !.actor = actor, !.pid = pid, !.pc = "found"]
            code == CASE ~Exists(pid) -> "NotFound"
                      [] ~OwnerFilter(actor, projects[pid]) -> "NotFound"
                      [] OTHER -> None
        IN  /\ CanStart
            /\ event' = Step("findOne", code, r)
            /\ inflight' = IF code = None THEN inflight (+) SetToBag({r}) ELSE inflight
            /\ UNCHANGED <<users, projects, now, nextId>>

DeleteFind == DeleteFindOn(1..MaxProjects)

\* Project.findByIdAndDelete(req.params.id)
DeleteById ==
    \E r \in Requests :
        /\ r.op = "delete" /\ r.pc = "found"
        /\ projects' = [q \in DOMAIN projects \ {r.pid} |-> projects[q]]
        /\ inflight' = Finish(r)
        /\ event' = Step("findByIdAndDelete", "Ok", r)
        /\ UNCHANGED <<users, now, nextId>>

\* ------------------------- POST /api/chat/projects/:projectId/messages
\* Project.findOne({ _id, $or: [{ owner: req.userId }, { assignedDeveloper: req.userId }] })
MemberFilterAnyone(actor, doc) == TRUE

MemberFilter(actor, doc) ==
    \/ doc.owner = actor
    \/ doc.assignedDeveloper = actor

MessageContents == { Str("hello", 0, 5) }

\* the handler up to its first await, with at most k requests in flight,
\* threads of at most n entries and the contents it is sent
MessageFindOn(ids, k, n, contents) ==
    \E actor \in UserIds, pid \in ids, content \in contents :
        LET r == [NoRequest EXCEPT !.op = "message", !.actor = actor, !.pid = pid, !.pc = "found",
                                   !.body = [NoBody EXCEPT !.has = {"content"}, !.content = content]]
            code == CASE ~isLength(trim(content), 1, MaxContent) -> "BadRequest"
                      [] ~Exists(pid) -> "NotFound"
                      [] ~MemberFilter(actor, projects[pid]) -> "NotFound"
                      [] OTHER -> None
        IN  /\ CanStartWithin(k)
            /\ RoomWithin(pid, n)
            /\ event' = StepSent("findOne", code, r, "message", FromStr(trim(content)))
            /\ inflight' = IF code = None THEN inflight (+) SetToBag({r}) ELSE inflight
            /\ UNCHANGED <<users, projects, now, nextId>>

MessageFindFor(k, n, contents) == MessageFindOn(1..MaxProjects, k, n, contents)

MessageFind == MessageFindFor(MaxInflight, MaxThread, MessageContents)

\* const { content } = req.body is the string the validator's trim() left
MessageAddCommunication ==
    \E r \in Requests :
        /\ r.op = "message" /\ r.pc = "found"
        /\ AddCommunication(r, "message", FromStr(trim(r.body.content)), "Ok")

\* ------------------------------------ POST /api/projects/:id/communication
CommunicationTypes == {"milestone", "note"}

\* "hello", " hello ", "   ", and a text of 2001 characters
CommunicationContents ==
    { Str("hello", 0, 5), Str("hello", 2, 5), Str("", 3, 0), Str("long", 0, 2001) }

\* body('type').isIn([...]), body('content').trim().isLength({ min: 1, max: 2000 })
CommunicationValid(body) ==
    /\ body.type \in EntryTypes
    /\ isLength(trim(body.content), 1, MaxContent)

CommunicationFindOn(ids, k, n) ==
    \E actor \in UserIds, pid \in ids,
       type \in CommunicationTypes, content \in CommunicationContents :
        LET body == [NoBody EXCEPT !.has = {"type", "content"}, !.type = type, !.content = content]
            r == [NoRequest EXCEPT !.op = "communication", !.actor = actor, !.pid = pid,
                                   !.pc = "found", !.body = body]
            code == CASE ~CommunicationValid(body) -> "BadRequest"
                      [] ~Exists(pid) -> "NotFound"
                      [] ~MemberFilter(actor, projects[pid]) -> "NotFound"
                      [] OTHER -> None
        IN  /\ CanStartWithin(k)
            /\ RoomWithin(pid, n)
            /\ event' = StepSent("findOne", code, r, type, FromStr(trim(content)))
            /\ inflight' = IF code = None THEN inflight (+) SetToBag({r}) ELSE inflight
            /\ UNCHANGED <<users, projects, now, nextId>>

CommunicationFind == CommunicationFindOn(1..MaxProjects, MaxRacing, MaxEntries)

\* req.body.content is the string the validator's trim() left
CommunicationAddCommunication ==
    \E r \in Requests :
        /\ r.op = "communication" /\ r.pc = "found"
        /\ AddCommunication(r, r.body.type, FromStr(trim(r.body.content)), "Ok")

\* ------------ PUT /api/chat/projects/:projectId/messages/:messageId/read
\* An entry's _id is modelled by its position: entries are only ever pushed.
ReadIds == {2, 3, 9}

\* project.communication.id(messageId)
HasEntry(doc, messageId) == messageId \in 1..Len(doc.communication)

\* the check that finds nobody: the push is made every time
alreadyReadNever(message, userId) == FALSE

\* message.readBy.some(read => read.user.toString() === req.userId.toString())
alreadyRead(message, userId) ==
    \E i \in 1..Len(message.readBy) : message.readBy[i].user = userId

\* the reader written over the readers the entry had
readByAssign(doc, messageId, userId, t) ==
    [doc EXCEPT !.communication[messageId].readBy = <<[user |-> userId, readAt |-> t]>>]

\* message.readBy.push({ user: req.userId, readAt: new Date() })
readByPush(doc, messageId, userId, t) ==
    [doc EXCEPT !.communication[messageId].readBy = Append(@, [user |-> userId, readAt |-> t])]

\* the lookup and what the handler does with the document it got, up to the
\* save it awaits
MarkReadFindOn(ids, k) ==
    \E actor \in UserIds, pid \in ids, messageId \in ReadIds :
        LET r == [NoRequest EXCEPT !.op = "read", !.actor = actor, !.pid = pid, !.pc = "found",
                                   !.body = [NoBody EXCEPT !.messageId = messageId], !.t = now]
            code == CASE ~Exists(pid) -> "NotFound"
                      [] ~MemberFilter(actor, projects[pid]) -> "NotFound"
                      [] ~HasEntry(projects[pid], messageId) -> "NotFound"
                      [] alreadyRead(projects[pid].communication[messageId], actor) -> "Ok"
                      [] OTHER -> None
        IN  /\ CanStartWithin(k)
            /\ event' = [Step("findOne", code, r) EXCEPT !.arg = ToString(messageId)]
            /\ inflight' = IF code = None THEN inflight (+) SetToBag({r}) ELSE inflight
            /\ UNCHANGED <<users, projects, now, nextId>>

MarkReadFind == MarkReadFindOn(1..MaxProjects, MaxRacing)

\* await project.save(): the push reaches the stored entry
MarkReadSave ==
    \E r \in Requests :
        /\ r.op = "read" /\ r.pc = "found"
        /\ IF Exists(r.pid)
             THEN /\ projects' = Store(r.pid, readByPush(projects[r.pid], r.body.messageId, r.actor, r.t))
                  /\ event' = [Step("save", "Ok", r) EXCEPT !.arg = ToString(r.body.messageId)]
             ELSE /\ projects' = projects
                  /\ event' = [Step("save", "ServerError", r) EXCEPT !.arg = ToString(r.body.messageId)]
        /\ inflight' = Finish(r)
        /\ UNCHANGED <<users, now, nextId>>

\* ------------------ GET /api/chat/projects/:projectId/messages
\* msg => msg.type === 'message'
IsMessage(msg) == msg.type = "message"

\* .sort((a, b) => new Date(b.timestamp) - new Date(a.timestamp)): newest
\* first; the sort is stable, entries of one timestamp keep their order
RECURSIVE SortDesc(_)
SortDesc(s) ==
    IF s = << >> THEN << >>
    ELSE LET rest == SortDesc(Tail(s))
             newer == SelectSeq(rest, LAMBDA e : e.timestamp > Head(s).timestamp)
         IN  newer \o <<Head(s)>> \o SubSeq(rest, Len(newer) + 1, Len(rest))

\* .slice(from, to), from >= 0
slice(s, from, to) == SubSeq(s, from + 1, IF to < Len(s) THEN to ELSE Len(s))

\* the page handed out as sliced, newest first
reverseNot(s) == s

\* .reverse()
reverse(s) == [i \in 1..Len(s) |-> s[Len(s) + 1 - i]]

\* page and limit come from the query string and are used as numbers
listMessages(communication, page, limit) ==
    reverse(slice(SortDesc(SelectSeq(communication, IsMessage)), (page - 1) * limit, page * limit))

Pages == {1, 2, 3}

Limits == {1, 2}

ListMessagesOn(ids) ==
    \E actor \in UserIds, pid \in ids, page \in Pages, limit \in Limits :
        LET r == [NoRequest EXCEPT !.op = "list", !.actor = actor, !.pid = pid,
                                   !.body = [NoBody EXCEPT !.page = page, !.limit = limit]]
            found == Exists(pid) /\ MemberFilter(actor, projects[pid])
        IN  /\ CanStart
            /\ event' = IF found
                           THEN [Step("findOne", "Ok", r) EXCEPT
                                    !.data = listMessages(projects[pid].communication, page, limit)]
                           ELSE Step("findOne", "NotFound", r)
            /\ UNCHANGED <<users, projects, inflight, now, nextId>>

ListMessages == ListMessagesOn(1..MaxProjects)

\* ------------------------------------ GET /api/chat/conversations
ConversationStatuses == {"prototype", "in-development", "testing"}

\* the count taken over the entries of every type
unreadCountAllTypes(doc, userId) ==
    Len(SelectSeq(doc.communication, LAMBDA msg : ~alreadyRead(msg, userId)))

\* messages.filter(msg => !msg.readBy.some(read => read.user === req.userId)).length
unreadCount(doc, userId) ==
    Len(SelectSeq(SelectSeq(doc.communication, IsMessage),
                  LAMBDA msg : ~alreadyRead(msg, userId)))

\* Project.find({ $or: [owner, assignedDeveloper], status: { $in: [...] } })
ConversationFilter(actor, doc) ==
    /\ MemberFilter(actor, doc)
    /\ doc.status \in ConversationStatuses

\* One conversation per project found, here in the order of the ids (the
\* order by updatedAt is not modelled).
Conversations ==
    \E actor \in UserIds :
        LET r == [NoRequest EXCEPT !.op = "conversations", !.actor = actor]
            found == SelectSeq([i \in 1..MaxProjects |-> i],
                               LAMBDA q : Exists(q) /\ ConversationFilter(actor, projects[q]))
        IN  /\ CanStartWithin(MaxRacing)
            /\ event' = [Step("find", "Ok", r) EXCEPT
                            !.data = [i \in 1..Len(found) |->
                                        [projectId |-> found[i],
                                         unreadCount |-> unreadCount(projects[found[i]], actor)]]]
            /\ UNCHANGED <<users, projects, inflight, now, nextId>>

\* ------------------------ POST /api/chat/projects/:projectId/typing
\* the lookup; a member's typing indicator is emitted to the room, nothing
\* is stored
TypingOn(ids) ==
    \E actor \in UserIds, pid \in ids :
        LET r == [NoRequest EXCEPT !.op = "typing", !.actor = actor, !.pid = pid]
            code == CASE ~Exists(pid) -> "NotFound"
                      [] ~MemberFilter(actor, projects[pid]) -> "NotFound"
                      [] OTHER -> "Ok"
        IN  /\ CanStart
            /\ event' = Step("findOne", code, r)
            /\ UNCHANGED <<users, projects, inflight, now, nextId>>

\* ------------------------------------------------ GET /api/projects/:id
\* Project.findOne({ _id, $or: [{ owner: req.userId }, { assignedDeveloper: req.userId }] })
ViewFilter(actor, doc) ==
    \/ doc.owner = actor
    \/ doc.assignedDeveloper = actor

ViewProjectOn(ids) ==
    \E actor \in UserIds, pid \in ids :
        LET r == [NoRequest EXCEPT !.op = "view", !.actor = actor, !.pid = pid]
            code == CASE ~Exists(pid) -> "NotFound"
                      [] ~ViewFilter(actor, projects[pid]) -> "NotFound"
                      [] OTHER -> "Ok"
        IN  /\ CanStart
            /\ event' = Step("findOne", code, r)
            /\ UNCHANGED <<users, projects, inflight, now, nextId>>

ViewProject == ViewProjectOn(1..MaxProjects)

\* -------------------------------------- POST /api/projects/:id/ai-generate
Includes(prompt, needles) == prompt.words \cap needles # {}

WhenFirst(cond, features) == IF cond THEN <<features[1]>> ELSE << >>

When(cond, features) == IF cond THEN features ELSE << >>

FallbackNever(features) == features

\* if (features.length === 0) features.push(Basic Dashboard, User Management)
Fallback(features) ==
    IF Len(features) = 0 THEN <<"Basic Dashboard", "User Management">> ELSE features

\* generateFeatures(): the names of the features, in the order pushed
generateFeatures(prompt, category) ==
    LET features ==
               When(Includes(prompt, {"user", "login", "signup"}), <<"User Authentication">>)
            \o When(Includes(prompt, {"dashboard", "home", "main"}), <<"User Dashboard">>)
            \o When(Includes(prompt, {"profile", "settings"}), <<"User Profile & Settings">>)
            \o When(category \in {"mobile-app", "web-app"} /\ Includes(prompt, {"notification", "alert"}),
                    <<"Push Notifications">>)
            \o When(category \in {"mobile-app", "web-app"} /\ Includes(prompt, {"search", "filter"}),
                    <<"Search & Filter">>)
            \o When(category = "e-commerce" \/ Includes(prompt, {"cart", "checkout"}),
                    <<"Shopping Cart", "Checkout & Payment", "Order Management">>)
            \o When(Includes(prompt, {"social", "share", "comment"}),
                    <<"Social Feed", "User Interactions">>)
            \o When(Includes(prompt, {"messaging", "chat"}), <<"Real-time Chat">>)
            \o When(Includes(prompt, {"map", "location", "nearby"}), <<"Location Services">>)
            \o When(Includes(prompt, {"camera", "photo", "upload"}), <<"Media Upload">>)
    IN  Fallback(features)

\* "hello", "hello world again", "I need user login and a dashboard",
\* "  a cart with checkout  "
GeneratePrompts ==
    { [words |-> {}, pad |-> 0, len |-> 5],
      [words |-> {}, pad |-> 0, len |-> 17],
      [words |-> {"user", "login", "dashboard"}, pad |-> 0, len |-> 33],
      [words |-> {"cart", "checkout"}, pad |-> 4, len |-> 20] }

\* const category = project.category || 'mobile-app'
CategoryOf(doc) == IF doc.category = None THEN "mobile-app" ELSE doc.category

\* body('prompt').trim().isLength({ min: 10, max: 500 }), the lookup, and
\* the features computed from the document read, for the prompts sent
GenerateFindFor(prompts) ==
    \E actor \in UserIds, pid \in 1..MaxProjects, prompt \in prompts :
        LET body == [NoBody EXCEPT !.has = {"prompt"}, !.prompt = trim(prompt)]
            r == [NoRequest EXCEPT !.op = "generate", !.actor = actor, !.pid = pid, !.pc = "found",
                                   !.body = body, !.t = now]
            code == CASE ~isLength(trim(prompt), 10, 500) -> "BadRequest"
                      [] ~Exists(pid) -> "NotFound"
                      [] ~OwnerFilter(actor, projects[pid]) -> "NotFound"
                      [] OTHER -> None
        IN  /\ CanStart
            /\ event' = Step("findOne", code, r)
            /\ inflight' =
                 IF code = None
                   THEN inflight (+) SetToBag({[r EXCEPT !.features =
                            generateFeatures(body.prompt, CategoryOf(projects[pid]))]})
                   ELSE inflight
            /\ UNCHANGED <<users, projects, now, nextId>>

GenerateFind == GenerateFindFor(GeneratePrompts)

\* project.features = mockFeatures; project.aiGenerated = {...}; save()
GenerateAssign(doc, r) ==
    [doc EXCEPT !.features = r.features,
                !.aiGenerated = [isAiGenerated |-> TRUE, prompt |-> r.body.prompt,
                                 generatedAt |-> r.t]]

GenerateSave ==
    \E r \in Requests :
        /\ r.op = "generate" /\ r.pc = "found"
        /\ IF Exists(r.pid)
             THEN /\ projects' = Store(r.pid, GenerateAssign(projects[r.pid], r))
                  /\ event' = [Step("save", "Ok", r) EXCEPT !.data = r.features]
             ELSE /\ projects' = projects
                  /\ event' = Step("save", "ServerError", r)
        /\ inflight' = Finish(r)
        /\ UNCHANGED <<users, now, nextId>>

\* ----------------------------------------------------------------- Next
Next ==
    \/ Tick
    \/ Fail
    \/ CreateSave
    \/ CreateAddCommunication
    \/ StatusFind
    \/ StatusSave
    \/ StatusAddCommunication
    \/ AssignUpdate
    \/ AssignAddCommunication
    \/ ConfirmFind
    \/ ConfirmSave
    \/ ConfirmAddCommunication
    \/ UpdateFind
    \/ UpdateSave
    \/ DeleteFind
    \/ DeleteById
    \/ MessageFind
    \/ MessageAddCommunication

Spec == Init /\ [][Next]_vars

\* ------------------------------------------- the owner's routes, alone
\* Project 1 after u1 created it with { title: 'Shop', category: 'web-app' }
\* and the admin assigned d1 to it: the thread holds the two entries of
\* these requests.  Spec reaches this store.
SeedProject ==
    [ProjectDefaults EXCEPT
        !.owner = "u1", !.assignedDeveloper = "d1", !.status = "in-development",
        !.title = "Shop", !.category = "web-app",
        !.communication =
            << Entry("status-update", Text("Project created successfully", None), "u1", 1),
               Entry("status-update", Text("Project assigned to", "d1"), "a1", 1) >>]

SeedInit ==
    /\ users = Accounts
    /\ projects = (1 :> SeedProject)
    /\ inflight = EmptyBag
    /\ now = 1
    /\ nextId = 2
    /\ event = Step("init", None, NoRequest)

OwnerNext ==
    \/ Tick
    \/ Fail
    \/ ViewProject
    \/ UpdateFind
    \/ UpdateSave
    \/ DeleteFind
    \/ DeleteById
    \/ GenerateFind
    \/ GenerateSave

SpecOwner == SeedInit /\ [][OwnerNext]_vars

\* ------------------------------------------- the update route, alone
UpdateNext ==
    \/ Fail
    \/ ViewProject
    \/ UpdateFindOn(1..MaxProjects, FieldBodies)
    \/ UpdateSave

SpecUpdate == SeedInit /\ [][UpdateNext]_vars

\* ------------------------------------ the routes that append, racing
\* a status with no notes, and one with notes of 2000 characters
ThreadStatusBodies ==
    { [NoBody EXCEPT !.has = {"status"}, !.status = "testing"],
      [NoBody EXCEPT !.has = {"status", "notes"}, !.status = "testing",
                     !.notes = Str("notes", 0, 2000)] }

ThreadNext ==
    \/ Fail
    \/ CommunicationFind
    \/ CommunicationAddCommunication
    \/ MessageFindFor(MaxRacing, MaxEntries, MessageContents)
    \/ MessageAddCommunication
    \/ StatusFindFor(MaxRacing, MaxEntries, ThreadStatusBodies)
    \/ StatusSave
    \/ StatusAddCommunication

SpecThread == SeedInit /\ [][ThreadNext]_vars

\* ------------------------------- reading and appending, racing
\* "hello" and " hello "
ReadContents == { Str("hello", 0, 5), Str("hello", 2, 5) }

ReadNext ==
    \/ Fail
    \/ MarkReadFind
    \/ MarkReadSave
    \/ MessageFindFor(MaxRacing, MaxThread + 1, ReadContents)
    \/ MessageAddCommunication
    \/ Conversations

SpecRead == SeedInit /\ [][ReadNext]_vars

\* ------------------------------ the project routes, by id and by actor
\* the stored project's id and one that no project has
AccessIds == 1..(MaxProjects + 1)

AccessNext ==
    \/ Fail
    \/ ViewProjectOn(AccessIds)
    \/ UpdateFindOn(AccessIds, UpdateBodies)
    \/ UpdateSave
    \/ DeleteFindOn(AccessIds)
    \/ DeleteById
    \/ CommunicationFindOn(AccessIds, MaxInflight, MaxThread + 1)
    \/ CommunicationAddCommunication
    \/ ListMessagesOn(AccessIds)
    \/ MarkReadFindOn(AccessIds, MaxInflight)
    \/ MarkReadSave
    \/ TypingOn(AccessIds)
    \/ StatusFindOn(AccessIds, MaxInflight, MaxThread + 1, ThreadStatusBodies)
    \/ StatusSave
    \/ StatusAddCommunication

SpecAccess == SeedInit /\ [][AccessNext]_vars

\* ------------------------------------------- suggesting features
\* one keyword of each group of generateFeatures, and a second of the first
Needles ==
    {"login", "signup", "dashboard", "profile", "alert", "search", "cart", "social", "chat",
     "map", "photo"}

\* "hello", and prompts of 40 characters that include no needle, one, the
\* two of the first group, two of different groups, or all of them
FeaturePrompts ==
    { [words |-> {}, pad |-> 0, len |-> 5] } \cup
    { [words |-> w, pad |-> 0, len |-> 40] :
        w \in {v \in SUBSET Needles : Cardinality(v) <= 1} \cup
              { {"login", "signup"}, {"login", "dashboard"}, {"cart", "social"}, Needles } }

\* the categories a project is created with, and one that only an update
\* can write (PUT /:id has no validator)
FeatureCategories == Categories \cup {"e-commerce"}

FeaturesInit ==
    /\ users = Accounts
    /\ \E category \in FeatureCategories :
           projects = (1 :> [SeedProject EXCEPT !.category = category])
    /\ inflight = EmptyBag
    /\ now = 1
    /\ nextId = 2
    /\ event = Step("init", None, NoRequest)

FeaturesNext ==
    \/ Fail
    \/ GenerateFindFor(FeaturePrompts)
    \/ GenerateSave

SpecFeatures == FeaturesInit /\ [][FeaturesNext]_vars

\* ------------------------------------------- deriving an avatar
\* a name is the sequence of its character codes
Space == 32

MaxName == 4

Letters == {Space, 88, 97, 100}

\* "Ada Lovelace"
AdaLovelace == <<65, 100, 97, 32, 76, 111, 118, 101, 108, 97, 99, 101>>

\* the names of at most MaxName characters out of " ", "X", "a", "d", and
\* "Ada Lovelace"
Names ==
    UNION { [1..n -> Letters] : n \in 0..MaxName } \cup { AdaLovelace }

\* String.prototype.trim()
trimName(name) ==
    LET kept == {i \in 1..Len(name) : name[i] # Space}
    IN  IF kept = {} THEN << >>
        ELSE SubSeq(name, CHOOSE i \in kept : \A j \in kept : i <= j,
                          CHOOSE i \in kept : \A j \in kept : j <= i)

\* String.prototype.split(' ')
RECURSIVE split(_)
split(name) ==
    LET spaces == {i \in 1..Len(name) : name[i] = Space}
    IN  IF spaces = {} THEN <<name>>
        ELSE LET i == CHOOSE k \in spaces : \A j \in spaces : k <= j
             IN  <<SubSeq(name, 1, i - 1)>> \o split(SubSeq(name, i + 1, Len(name)))

\* String.prototype.toUpperCase() on the letters a..z
toUpperCase(name) ==
    [i \in 1..Len(name) |-> IF name[i] \in 97..122 THEN name[i] - 32 ELSE name[i]]

substringOne(name, from, to) ==
    SubSeq(name, from + 1, IF 1 < Len(name) THEN 1 ELSE Len(name))

\* String.prototype.substring(from, to)
substring(name, from, to) ==
    SubSeq(name, from + 1, IF to < Len(name) THEN to ELSE Len(name))

\* parts[0][0] + parts[parts.length - 1][0] of at least two parts, else the
\* first two characters; uppercased
initialsOf(name) ==
    LET parts == split(trimName(name))
    IN  IF Len(parts) >= 2
          THEN toUpperCase(<<parts[1][1], parts[Len(parts)][1]>>)
          ELSE toUpperCase(substring(parts[1], 0, 2))

\* a number as hi * 2^16 + lo with lo in 0..2^16-1, so that the shift of a
\* 32-bit integer is computed without leaving the integers of the checker
Half == 65536

Norm(hi, lo) == [hi |-> hi + (lo \div Half), lo |-> lo % Half]

\* ToInt32: the number modulo 2^32, as a signed 32-bit integer
ToInt32(x) == [hi |-> ((x.hi + 32768) % Half) - 32768, lo |-> x.lo]

\* hash << 5
ShiftLeft5(x) ==
    LET y == ToInt32(x) IN ToInt32(Norm(y.hi * 32, y.lo * 32))

\* hash = name.charCodeAt(i) + ((hash << 5) - hash)
hashStep(hash, code) ==
    LET shifted == ShiftLeft5(hash)
    IN  Norm(shifted.hi - hash.hi, shifted.lo - hash.lo + code)

\* the loop over the characters; each step is computed before the next
RECURSIVE hashOf(_, _)
hashOf(name, hash) ==
    IF name = << >> THEN hash
    ELSE CHOOSE last \in { hashOf(Tail(name), next) : next \in {hashStep(hash, Head(name))} } : TRUE

\* the index in colors of colors[Math.abs(hash) % colors.length]
colorOf(name) ==
    LET h == hashOf(name, [hi |-> 0, lo |-> 0])
    IN  IF h.hi < 0 THEN (8 - (h.lo % 8)) % 8 ELSE h.lo % 8

\* generateAvatarDataUrl(name): null without a name, else the image of the
\* initials on the colour
generateAvatarDataUrl(name) ==
    IF name = << >> THEN [initials |-> None, color |-> None]
    ELSE [initials |-> initialsOf(name), color |-> colorOf(name)]

\* AvatarGenerator.generateInitials(name)
generateInitials(name) ==
    IF name = << >> THEN <<85>>
    ELSE LET parts == split(trimName(name))
         IN  IF Len(parts) >= 2
               THEN toUpperCase(<<parts[1][1], parts[Len(parts)][1]>>)
               ELSE toUpperCase(substring(parts[1], 0, 2))

\* AvatarGenerator.generateColor(name): '#8b5cf6' is colors[0]
generateColor(name) == IF name = << >> THEN 0 ELSE colorOf(name)

\* AvatarGenerator.createAvatar(name)
createAvatar(name) == [initials |-> generateInitials(name), color |-> generateColor(name)]

\* the server derives the avatar of a name
GenerateAvatarDataUrl ==
    \E u \in DOMAIN users :
        LET r == [NoRequest EXCEPT !.op = "generateAvatarDataUrl", !.actor = u]
        IN  /\ event' = [Step("avatar", "Ok", r) EXCEPT !.data = generateAvatarDataUrl(users[u].name)]
            /\ UNCHANGED <<users, projects, inflight, now, nextId>>

\* the client derives the avatar of App.user.name
CreateAvatar ==
    \E u \in DOMAIN users :
        LET r == [NoRequest EXCEPT !.op = "createAvatar", !.actor = u]
        IN  /\ event' = [Step("avatar", "Ok", r) EXCEPT !.data = createAvatar(users[u].name)]
            /\ UNCHANGED <<users, projects, inflight, now, nextId>>

AvatarInit ==
    /\ \E name \in Names : users = [u \in {"u1"} |-> [role |-> "user", name |-> name]]
    /\ projects = << >>
    /\ inflight = EmptyBag
    /\ now = 1
    /\ nextId = 1
    /\ event = Step("init", None, NoRequest)

AvatarNext ==
    \/ GenerateAvatarDataUrl
    \/ CreateAvatar

SpecAvatar == AvatarInit /\ [][AvatarNext]_vars

\* ------------------------------------ status transitions, racing, alone
\* transitions to two different statuses, without notes
RacingStatusBodies ==
    { [NoBody EXCEPT !.has = {"status"}, !.status = status] : status \in {"testing", "deployed"} }

TransitionsNext ==
    \/ Tick
    \/ StatusFindOn(1..MaxProjects, MaxRacing, MaxEntries, RacingStatusBodies)
    \/ StatusSave
    \/ StatusAddCommunication

SpecTransitions == SeedInit /\ [][TransitionsNext]_vars

\* ----------------------------------------------------- the user routes
MaxTokens == 3

\* e-mail addresses as normalizeEmail() leaves them, and a string that
\* isEmail() refuses
Emails == {"ann@x.io", "bob@x.io"}

BadEmail == "ann"

\* "Ann"
Ann == <<65, 110, 110>>

\* the stored admin
Staff ==
    [u \in {"a1"} |->
        [role |-> "admin", name |-> <<82, 111>>, email |-> "root@x.io", avatar |-> None,
         isVerified |-> TRUE, verificationToken |-> None]]

\* crypto.randomBytes(32).toString('hex') and a new _id: values not given
\* before
Fresh == ToString(nextId)

\* User.findOne({ email })
ByEmail(email) == {u \in DOMAIN users : users[u].email = email}

\* User.findOne({ verificationToken: token })
ByToken(token) == {u \in DOMAIN users : users[u].verificationToken = token}

\* the unique index on email: the insert of a document goes through when no
\* stored user has its e-mail
insert(id, doc) == ByEmail(doc.email) = {}

\* POST /api/auth/register up to the save: validation, the existence check,
\* the avatar and the token
RegisterFind ==
    \E email \in Emails \cup {BadEmail} :
        LET r == [NoRequest EXCEPT !.op = "register", !.pc = "checked",
                                   !.body = [NoBody EXCEPT !.email = email, !.token = Fresh]]
            code == CASE email \notin Emails -> "BadRequest"
                      [] ByEmail(email) # {} -> "UserExists"
                      [] OTHER -> None
        IN  /\ CanStartWithin(MaxRacing)
            /\ nextId <= MaxTokens
            /\ event' = Step("findOne", code, r)
            /\ inflight' = IF code = None THEN inflight (+) SetToBag({r}) ELSE inflight
            /\ nextId' = IF code = None THEN nextId + 1 ELSE nextId
            /\ UNCHANGED <<users, projects, now>>

\* new User({ name, email, password, avatar, isVerified: false, verificationToken })
NewUser(r) ==
    [role |-> "user", name |-> Ann, email |-> r.body.email, avatar |-> generateAvatarDataUrl(Ann),
     isVerified |-> FALSE, verificationToken |-> r.body.token]

\* new User({ name, email, password, role: 'developer', isVerified: true })
NewDeveloper(r) ==
    [role |-> "developer", name |-> Ann, email |-> r.body.email, avatar |-> None,
     isVerified |-> TRUE, verificationToken |-> None]

\* await user.save() of a new document; a refused insert throws and the
\* catch answers 500
SaveNew(r, doc) ==
    /\ IF insert(r.body.token, doc)
         THEN /\ users' = (r.body.token :> doc) @@ users
              /\ event' = Step("save", "Created", r)
         ELSE /\ users' = users
              /\ event' = Step("save", "ServerError", r)
    /\ inflight' = Finish(r)
    /\ UNCHANGED <<projects, now, nextId>>

RegisterSave ==
    \E r \in Requests :
        /\ r.op = "register" /\ r.pc = "checked"
        /\ SaveNew(r, NewUser(r))

\* POST /api/admin/developers up to the save
DeveloperFind ==
    \E actor \in DOMAIN users, email \in Emails \cup {BadEmail} :
        LET r == [NoRequest EXCEPT !.op = "developer", !.actor = actor, !.pc = "checked",
                                   !.body = [NoBody EXCEPT !.email = email, !.token = Fresh]]
            code == CASE ~adminAuth(actor) -> "AccessDenied"
                      [] email \notin Emails -> "BadRequest"
                      [] ByEmail(email) # {} -> "UserExists"
                      [] OTHER -> None
        IN  /\ CanStartWithin(MaxRacing)
            /\ nextId <= MaxTokens
            /\ event' = Step("findOne", code, r)
            /\ inflight' = IF code = None THEN inflight (+) SetToBag({r}) ELSE inflight
            /\ nextId' = IF code = None THEN nextId + 1 ELSE nextId
            /\ UNCHANGED <<users, projects, now>>

DeveloperSave ==
    \E r \in Requests :
        /\ r.op = "developer" /\ r.pc = "checked"
        /\ SaveNew(r, NewDeveloper(r))

\* the tokens a verification link may carry: none, or one that was given out
Tokens == {None} \cup {ToString(k) : k \in 1..MaxTokens}

\* GET /api/auth/verify-email up to the save
VerifyFind ==
    \E token \in Tokens :
        LET found == ByToken(token)
            code == CASE token = None -> "BadRequest"
                      [] found = {} -> "BadRequest"
                      [] OTHER -> None
        IN  /\ CanStartWithin(MaxRacing)
            /\ \E u \in IF code = None THEN found ELSE {None} :
                  LET r == [NoRequest EXCEPT !.op = "verify", !.actor = u, !.pc = "found",
                                             !.body = [NoBody EXCEPT !.token = token]]
                  IN  /\ event' = Step("findOne", code, r)
                      /\ inflight' = IF code = None THEN inflight (+) SetToBag({r}) ELSE inflight
            /\ UNCHANGED <<users, projects, now, nextId>>

\* user.isVerified = true; user.verificationToken = undefined; save() writes
\* the two paths
VerifySave ==
    \E r \in Requests :
        /\ r.op = "verify" /\ r.pc = "found"
        /\ users' = [users EXCEPT ![r.actor].isVerified = TRUE,
                                  ![r.actor].verificationToken = None]
        /\ event' = Step("save", "Ok", r)
        /\ inflight' = Finish(r)
        /\ UNCHANGED <<projects, now, nextId>>

\* POST /api/auth/resend-verification up to the save
ResendFind ==
    \E email \in Emails \cup {BadEmail} :
        LET found == ByEmail(email)
            code == CASE email \notin Emails -> "BadRequest"
                      [] found = {} -> "NotFound"
                      [] \A u \in found : users[u].isVerified -> "BadRequest"
                      [] OTHER -> None
        IN  /\ CanStartWithin(MaxRacing)
            /\ nextId <= MaxTokens
            /\ \E u \in IF code = None THEN {v \in found : ~users[v].isVerified} ELSE {None} :
                  LET r == [NoRequest EXCEPT !.op = "resend", !.actor = u, !.pc = "found",
                                             !.body = [NoBody EXCEPT !.email = email, !.token = Fresh]]
                  IN  /\ event' = Step("findOne", code, r)
                      /\ inflight' = IF code = None THEN inflight (+) SetToBag({r}) ELSE inflight
            /\ nextId' = IF code = None THEN nextId + 1 ELSE nextId
            /\ UNCHANGED <<users, projects, now>>

\* user.verificationToken = verificationToken; save() writes the path
ResendSave ==
    \E r \in Requests :
        /\ r.op = "resend" /\ r.pc = "found"
        /\ users' = [users EXCEPT ![r.actor].verificationToken = r.body.token]
        /\ event' = Step("save", "Ok", r)
        /\ inflight' = Finish(r)
        /\ UNCHANGED <<projects, now, nextId>>

UsersInit ==
    /\ users = Staff
    /\ projects = << >>
    /\ inflight = EmptyBag
    /\ now = 1
    /\ nextId = 1
    /\ event = Step("init", None, NoRequest)

UsersNext ==
    \/ Fail
    \/ RegisterFind
    \/ RegisterSave
    \/ DeveloperFind
    \/ DeveloperSave
    \/ VerifyFind
    \/ VerifySave
    \/ ResendFind
    \/ ResendSave

SpecUsers == UsersInit /\ [][UsersNext]_vars

\* ------------------------------------------- listing a thread
\* The threads listed: up to MaxList entries, messages and status updates,
\* the first stamped 1 and each other at the time of the one before it or
\* one tick later; entry i carries text i.
ListThreads ==
    UNION { { t \in [1..n -> [type : {"message", "status-update"}, timestamp : 1..n]] :
                /\ n > 0 => t[1].timestamp = 1
                /\ \A i \in 1..(n - 1) :
                      t[i + 1].timestamp \in {t[i].timestamp, t[i].timestamp + 1} }
            : n \in 0..MaxList }

ListInit ==
    /\ users = Accounts
    /\ \E t \in ListThreads :
           projects = (1 :> [SeedProject EXCEPT !.communication =
                               [i \in 1..Len(t) |->
                                   Entry(t[i].type, FromStr(Str(ToString(i), 0, 1)), "u1",
                                         t[i].timestamp)]])
    /\ inflight = EmptyBag
    /\ now = MaxList
    /\ nextId = 2
    /\ event = Step("init", None, NoRequest)

ListNext == ListMessages

SpecList == ListInit /\ [][ListNext]_vars


\* =========================================================== properties
Terminal == {"deployed", "cancelled"}

Rank(status) ==
    CASE status = "draft" -> 1
      [] status = "prototype" -> 2
      [] status = "in-development" -> 3
      [] status = "testing" -> 4
      [] status = "deployed" -> 5
      [] OTHER -> 0

\* the projects stored before and after a step
Kept == DOMAIN projects \cap DOMAIN projects'

StatusChanged(p) == projects'[p].status # projects[p].status

\* the status an entry's text names, if it names one
StatusNamedBy(content) ==
    CASE content.tpl = "Status updated to" -> content.arg
      [] content.tpl = "Payment confirmed. Project moved to prototype phase." -> "prototype"
      [] OTHER -> None

\* C1: once a project's status is deployed or cancelled, no step of any
\* request changes it.
TerminalStatesAbsorbing ==
    [][\A p \in Kept : projects[p].status \in Terminal => ~StatusChanged(p)]_vars

\* C2: a step that changes a project's status either moves it forward in the
\* chain draft, prototype, in-development, testing, deployed, or cancels a
\* project that is in no terminal state.
StatusOnlyForward ==
    [][\A p \in Kept :
          StatusChanged(p) =>
              LET a == projects[p].status
                  b == projects'[p].status
              IN  \/ Rank(a) > 0 /\ Rank(b) > Rank(a)
                  \/ b = "cancelled" /\ a \notin Terminal]_vars

\* C3: a project's status changes only in a step of a request whose actor is
\* an admin or the developer assigned to the project.
StatusChangedOnlyByAdminOrAssignee ==
    [][\A p \in Kept :
          StatusChanged(p) =>
              \/ users[event'.actor].role = "admin"
              \/ event'.actor = projects[p].assignedDeveloper]_vars

\* C4: a request to move an existing project to one of the six statuses, made
\* by an actor who is neither an admin nor the project's assigned developer,
\* is answered with the access-denied / not-found outcome, and the step
\* changes no project and leaves no request behind to write later.
DeniedTransitionChangesNothing ==
    [][(/\ event'.op = "status"
        /\ event'.step = "findOne"
        /\ event'.arg \in Statuses
        /\ Exists(event'.pid)
        /\ users[event'.actor].role # "admin"
        /\ projects[event'.pid].assignedDeveloper # event'.actor)
       => /\ event'.code \in {"NotFound", "AccessDenied"}
          /\ projects' = projects
          /\ inflight' = inflight]_vars

\* C4 witness: the owner of a project, a developer who is not assigned to it,
\* has asked for a status and was answered not-found.
DeniedTransitionSeen ==
    /\ event.op = "status"
    /\ event.step = "findOne"
    /\ event.code = "NotFound"
    /\ event.arg \in Statuses
    /\ Exists(event.pid)
    /\ projects[event.pid].owner = event.actor
    /\ projects[event.pid].assignedDeveloper # event.actor
    /\ Len(projects[event.pid].communication) > 0

\* the status a request sets
TargetStatus(op, arg) ==
    CASE op = "status" -> arg
      [] op = "assign" -> "in-development"
      [] op = "payment" -> "prototype"
      [] OTHER -> None

\* C5: the step that answers a status transition, an assignment or a payment
\* confirmation with success appends exactly one entry, of type
\* status-update, authored by the actor and naming the status the request set.
TransitionAppendsStatusEntry ==
    [][(event'.code = "Ok" /\ event'.op \in {"status", "assign", "payment"}) =>
          LET before == projects[event'.pid].communication
              after == projects'[event'.pid].communication
              last == after[Len(after)]
          IN  /\ after = Append(before, last)
              /\ last.type = "status-update"
              /\ last.author = event'.actor
              /\ StatusNamedBy(last.content) = TargetStatus(event'.op, event'.arg)]_vars

\* the entry a request that sets a status appends for it
MatchingEntry(r, e) ==
    /\ e.type = "status-update"
    /\ e.author = r.actor
    /\ IF r.op = "assign"
         THEN e.content.tpl = "Project assigned to"
         ELSE StatusNamedBy(e.content) = TargetStatus(r.op, Arg(r))

\* C6: in no state does a stored project carry the status a request has
\* written while the thread holds no status-update entry of that request.
TransitionAtomic ==
    \A r \in Requests :
        (/\ r.op \in {"status", "assign"}
         /\ r.pc = "saved"
         /\ Exists(r.pid)
         /\ projects[r.pid].status = TargetStatus(r.op, Arg(r)))
        => \E i \in 1..Len(projects[r.pid].communication) :
               MatchingEntry(r, projects[r.pid].communication[i])

\* C7: the write of a status transition into deployed sets timeline.actualEnd
\* to a date and keeps the other timeline fields; every other step of a
\* status transition, an assignment or a payment confirmation leaves the
\* whole timeline as it was.
DeployedSetsActualEnd ==
    [][\A p \in Kept :
          event'.op \in {"status", "assign", "payment"} =>
              LET old == projects[p].timeline
                  new == projects'[p].timeline
              IN  IF /\ event'.op = "status" /\ event'.step = "save" /\ event'.code = None
                     /\ event'.pid = p /\ event'.arg = "deployed"
                    THEN /\ new.actualEnd # Null
                         /\ new = [old EXCEPT !.actualEnd = new.actualEnd]
                         /\ projects'[p].status = "deployed"
                    ELSE new = old]_vars

\* C7 witness: a project with a planned start has just been moved to deployed
\* and carries an end date.
DeployedWithEndDate ==
    /\ event.op = "status" /\ event.step = "save" /\ event.arg = "deployed"
    /\ Exists(event.pid)
    /\ projects[event.pid].status = "deployed"
    /\ projects[event.pid].timeline.plannedStart # Null
    /\ projects[event.pid].timeline.actualEnd # Null

\* C8: a step of a request other than a status transition changes a project's
\* status only if it is an assignment to a project without a developer that
\* is in draft or prototype, and then to in-development.
OnlyFirstAssignmentMovesStatus ==
    [][\A p \in Kept :
          (StatusChanged(p) /\ event'.op # "status") =>
              /\ event'.op = "assign"
              /\ projects[p].assignedDeveloper = None
              /\ projects[p].status \in {"draft", "prototype"}
              /\ projects'[p].status = "in-development"]_vars

\* C9: every stored project's assignedDeveloper is absent or is the id of a
\* stored user whose role is developer.
AssignedDeveloperIsDeveloper ==
    \A p \in DOMAIN projects :
        LET d == projects[p].assignedDeveloper
        IN  d = None \/ (d \in DOMAIN users /\ users[d].role = "developer")

\* C10: a project enters the store owned by the user who asked for it,
\* whatever owner the body names, and no step changes a stored project's owner.
OwnerIsCreatorForever ==
    [][/\ \A p \in DOMAIN projects' \ DOMAIN projects :
              event'.op = "create" /\ projects'[p].owner = event'.actor
       /\ \A p \in Kept : projects'[p].owner = projects[p].owner]_vars

\* C10 witness: a project created with a body that named another owner (the
\* only way to start in testing with a plain user as developer) has just been
\* updated by its owner with a body naming another owner, and is still owned
\* by its creator.
OwnerKeptThroughUpdate ==
    /\ event.op = "update" /\ event.step = "save" /\ event.code = "Ok"
    /\ Exists(event.pid)
    /\ projects[event.pid].owner = event.actor
    /\ projects[event.pid].title = "Store"
    /\ projects[event.pid].status = "testing"
    /\ projects[event.pid].assignedDeveloper = "u1"

\* C11: every project that enters the store enters it in status draft,
\* whatever the creating body carries.
CreatedInDraft ==
    [][\A p \in DOMAIN projects' \ DOMAIN projects : projects'[p].status = "draft"]_vars

\* the project a step has written to or removed
Touched(p) == p \notin DOMAIN projects' \/ projects'[p] # projects[p]

\* C12: a well-formed update, delete or feature generation asked by anyone
\* but the owner of an existing project (its assigned developer and an admin
\* included) is answered not-found, changes no project and leaves no request
\* behind to write later; and every step of these three routes that writes
\* to a project or removes it belongs to a request of the project's owner.
OnlyOwnerMutates ==
    [][/\ (/\ event'.op \in {"update", "delete", "generate"}
           /\ event'.step = "findOne"
           /\ event'.code # "BadRequest"
           /\ Exists(event'.pid)
           /\ projects[event'.pid].owner # event'.actor)
          => /\ event'.code = "NotFound"
             /\ projects' = projects
             /\ inflight' = inflight
       /\ \A p \in DOMAIN projects :
              (Touched(p) /\ event'.op \in {"update", "delete", "generate"})
                  => event'.actor = projects[p].owner]_vars

\* C12 witness: the assigned developer has asked for features of a project
\* whose owner had generated some, and was answered not-found.
DeveloperGenerateDenied ==
    /\ event.op = "generate" /\ event.step = "findOne" /\ event.code = "NotFound"
    /\ Exists(event.pid)
    /\ projects[event.pid].assignedDeveloper = event.actor
    /\ projects[event.pid].owner # event.actor
    /\ projects[event.pid].features = <<"User Authentication", "User Dashboard">>

\* the seeded store of the owner's routes, as a state of the lifecycle
SeedStored == Exists(1) /\ projects[1] = SeedProject

\* canView of the access rules: the owner, the assigned developer, or an admin
canView(actor, doc) ==
    \/ doc.owner = actor
    \/ doc.assignedDeveloper = actor
    \/ users[actor].role = "admin"

\* C19: a request to view an existing project is answered with the project
\* exactly when the actor is its owner, its assigned developer or an admin,
\* and with not-found otherwise.
ViewExactlyWhenCanView ==
    [][(event'.op = "view" /\ Exists(event'.pid)) =>
          IF canView(event'.actor, projects[event'.pid])
            THEN event'.code = "Ok"
            ELSE event'.code = "NotFound"]_vars

\* C13: every entry of every stored thread has one of the four types and a
\* content of 1 to 2000 characters; and a request that asks for an entry
\* which is not so is turned down at once (validation error, or the denial
\* every request of that actor gets), changes no project and leaves no
\* request behind to write later.
EntriesValidOrRejected ==
    /\ [](\A p \in DOMAIN projects :
            \A i \in 1..Len(projects[p].communication) :
                ValidEntry(projects[p].communication[i].type, projects[p].communication[i].content))
    /\ [][(/\ event'.sent.type # None
           /\ ~ValidEntry(event'.sent.type, event'.sent.content))
          => /\ event'.code \in {"BadRequest", "NotFound", "AccessDenied"}
             /\ projects' = projects
             /\ inflight' = inflight]_vars

\* an entry but for who has read it
Unread(e) == [e EXCEPT !.readBy = << >>]

IsPrefix(s, t) == Len(s) <= Len(t) /\ SubSeq(t, 1, Len(s)) = s

\* a step keeps the entries of a thread: same entries at the same places,
\* with at least the readers they had
KeepsEntries(a, b) ==
    /\ Len(a) <= Len(b)
    /\ \A i \in 1..Len(a) : /\ Unread(b[i]) = Unread(a[i])
                            /\ IsPrefix(a[i].readBy, b[i].readBy)

\* the request whose last step the event shows
Answered(r) ==
    /\ r.op = event'.op /\ r.actor = event'.actor /\ r.pid = event'.pid
    /\ inflight' = Finish(r)

\* a step of a chat message that was answered with success added, at the
\* end of the thread, one unread entry of type message whose content is what
\* convert makes of the content sent
AppendsAsSent(convert(_)) ==
    (event'.op = "message" /\ event'.step = "addCommunication" /\ event'.code = "Ok") =>
        \E r \in Requests :
            /\ Answered(r)
            /\ projects'[r.pid].communication =
                   Append(projects[r.pid].communication,
                          Entry("message", FromStr(convert(r.body.content)), r.actor, now))

Same(s) == s

AppendersOf(p) ==
    {r \in Requests : r.pid = p /\ r.op \in {"communication", "message", "status"}}

\* C15: whatever other appending requests are in flight on the same project
\* (appends, status transitions), the step that answers an appending request
\* with success adds the entry it asked for, once, at the end of the stored
\* thread and keeps every entry the others have added; no other step adds,
\* removes or changes an entry, and the status a racing transition wrote
\* stays.
RacingAppendsKeepEntries ==
    [][\A p \in Kept :
          LET a == projects[p].communication
              b == projects'[p].communication
          IN  IF event'.step = "addCommunication" /\ event'.code = "Ok" /\ event'.pid = p
                THEN /\ b = Append(a, Entry(event'.sent.type, event'.sent.content, event'.actor, now))
                     /\ projects'[p].status = projects[p].status
                ELSE b = a]_vars

\* C15 witness: the entry of an append has just been stored while a status
\* transition, which has written its status, is still to append its own.
RacedAppendStored ==
    /\ event.op = "communication" /\ event.step = "addCommunication" /\ event.code = "Ok"
    /\ Exists(event.pid)
    /\ Len(projects[event.pid].communication) = 3
    /\ projects[event.pid].communication[3].author = event.actor
    /\ projects[event.pid].status = "testing"
    /\ \E r \in AppendersOf(event.pid) : r.op = "status" /\ r.pc = "saved"

\* how many elements of readBy name the user
Reads(readBy, userId) == Cardinality({i \in 1..Len(readBy) : readBy[i].user = userId})

\* C16: markRead by a member who is already among the readers of the entry
\* is answered with success and changes nothing, so a second call in sequence
\* leaves what the first left; the lookup of a markRead writes nothing, and
\* its save adds the reader at the end of the entry's readBy, which then
\* names a reader who was not in it exactly once.
MarkReadIdempotent ==
    [][\A m \in ReadIds :
          (/\ event'.op = "read" /\ event'.arg = ToString(m)
           /\ Exists(event'.pid)
           /\ MemberFilter(event'.actor, projects[event'.pid])
           /\ HasEntry(projects[event'.pid], m))
          => LET before == projects[event'.pid].communication[m].readBy
                 after == projects'[event'.pid].communication[m].readBy
             IN  CASE event'.step = "findOne" ->
                          /\ projects' = projects
                          /\ Reads(before, event'.actor) > 0 =>
                                 (event'.code = "Ok" /\ inflight' = inflight)
                   [] event'.step = "save" /\ event'.code = "Ok" ->
                          /\ Len(after) = Len(before) + 1
                          /\ SubSeq(after, 1, Len(before)) = before
                          /\ after[Len(after)].user = event'.actor
                          /\ Reads(before, event'.actor) = 0 => Reads(after, event'.actor) = 1
                          /\ projects' = Store(event'.pid,
                                 [projects[event'.pid] EXCEPT !.communication[m].readBy = after])
                   [] OTHER -> projects' = projects]_vars

\* C16 witness: a member who is the one reader of the third entry has asked
\* to mark it again and was answered with success.
SecondMarkReadAnswered ==
    /\ event.op = "read" /\ event.step = "findOne" /\ event.code = "Ok" /\ event.arg = "3"
    /\ Exists(event.pid)
    /\ HasEntry(projects[event.pid], 3)
    /\ projects[event.pid].communication[3].readBy = <<[user |-> event.actor, readAt |-> 1]>>

\* C17: in no stored entry does readBy name a user more than once.
ReadByNamesUserOnce ==
    \A p \in DOMAIN projects :
        \A i \in 1..Len(projects[p].communication) :
            \A u \in UserIds : Reads(projects[p].communication[i].readBy, u) <= 1

\* C18: a well-formed thread request of an actor who is neither the owner nor
\* the assigned developer of an existing project (an admin included) is
\* answered not-found, changes no project and leaves no request behind to
\* write later; and every entry a step adds to a thread is authored by the
\* owner or the assigned developer the project has at that step.
ThreadOnlyForMembers ==
    [][/\ (/\ event'.op \in {"communication", "message", "read", "list"}
           /\ event'.step = "findOne"
           /\ event'.code # "BadRequest"
           /\ Exists(event'.pid)
           /\ ~MemberFilter(event'.actor, projects[event'.pid]))
          => /\ event'.code = "NotFound"
             /\ projects' = projects
             /\ inflight' = inflight
       /\ \A p \in Kept :
              \A i \in (Len(projects[p].communication) + 1)..Len(projects'[p].communication) :
                  MemberFilter(projects'[p].communication[i].author, projects[p])]_vars

\* entries of a sequence that are stamped later than e, or no earlier
Newer(s, e) == Cardinality({i \in 1..Len(s) : s[i].timestamp > e.timestamp})

NoOlder(s, e) == Cardinality({i \in 1..Len(s) : s[i].timestamp >= e.timestamp})

\* C20: a member who lists a thread with page >= 1 and limit >= 1 gets
\* messages only, each an entry of the thread and none twice, as many as
\* there are ranks from (page-1)*limit+1 to page*limit among the thread's
\* messages counted from the most recent, the k-th from the end being a
\* message of the k-th of these ranks, in ascending order of timestamp.
ListReturnsPage ==
    [][(event'.op = "list" /\ event'.code = "Ok"
        /\ event'.query.page >= 1 /\ event'.query.limit >= 1) =>
          LET msgs == SelectSeq(projects[event'.pid].communication, IsMessage)
              lo == (event'.query.page - 1) * event'.query.limit + 1
              hi == IF event'.query.page * event'.query.limit < Len(msgs)
                      THEN event'.query.page * event'.query.limit ELSE Len(msgs)
              out == event'.data
          IN  /\ Len(out) = IF hi < lo THEN 0 ELSE hi - lo + 1
              /\ \A k \in 1..Len(out) :
                    /\ out[k].type = "message"
                    /\ \E i \in 1..Len(msgs) : msgs[i] = out[k]
                    /\ Newer(msgs, out[k]) < hi + 1 - k
                    /\ hi + 1 - k <= NoOlder(msgs, out[k])
              /\ \A j, k \in 1..Len(out) :
                    j < k => (out[j].timestamp <= out[k].timestamp /\ out[j] # out[k])]_vars

\* C20 witness: page 1 with limit 2 of a thread of five messages stamped
\* 1 to 5 has returned the fourth and the fifth, in this order.
ListedTwoMostRecent ==
    /\ event.op = "list" /\ event.code = "Ok"
    /\ event.query = [page |-> 1, limit |-> 2]
    /\ Exists(event.pid)
    /\ LET thread == projects[event.pid].communication
       IN  /\ Len(thread) = 5
           /\ \A i \in 1..5 : thread[i].type = "message" /\ thread[i].timestamp = i
           /\ event.data = <<thread[4], thread[5]>>

\* the message entries of a thread that do not name the user among their readers
UnreadMessages(communication, userId) ==
    {i \in 1..Len(communication) :
        /\ communication[i].type = "message"
        /\ \A k \in 1..Len(communication[i].readBy) : communication[i].readBy[k].user # userId}

\* C21: the conversations a user is answered with are those of the active
\* projects the user is a member of, and the unreadCount of each is the
\* number of entries of type message whose readBy does not name the user; so
\* it is 0 once the user is among the readers of every message.
UnreadCountExact ==
    [][event'.op = "conversations" =>
          /\ event'.code = "Ok"
          /\ \A p \in DOMAIN projects :
                ConversationFilter(event'.actor, projects[p]) =>
                    \E i \in 1..Len(event'.data) :
                        /\ event'.data[i].projectId = p
                        /\ event'.data[i].unreadCount =
                               Cardinality(UnreadMessages(projects[p].communication, event'.actor))
          /\ \A i \in 1..Len(event'.data) :
                /\ Exists(event'.data[i].projectId)
                /\ ConversationFilter(event'.actor, projects[event'.data[i].projectId])
                /\ \A j \in 1..Len(event'.data) :
                      event'.data[j].projectId = event'.data[i].projectId => j = i]_vars

\* C21 witness: a member who has marked the one message of the thread, and
\* not the status updates before it, is answered with an unreadCount of 0.
AllMarkedCountsZero ==
    /\ event.op = "conversations"
    /\ event.data = <<[projectId |-> 1, unreadCount |-> 0]>>
    /\ Exists(1)
    /\ LET thread == projects[1].communication
       IN  /\ Len(thread) = 3
           /\ thread[3].type = "message"
           /\ Reads(thread[3].readBy, event.actor) = 1
           /\ thread[1].readBy = << >> /\ thread[2].readBy = << >>

\* ------------------------------------------- C22
\* the keyword groups in scan order: the keywords, the categories in which
\* the keywords are looked for, the categories that match without a keyword,
\* and the features of the group
AllCategories == FeatureCategories \cup {None}

Group(needles, within, always, features) ==
    [needles |-> needles, within |-> within, always |-> always, features |-> features]

FeatureGroups ==
    << Group({"user", "login", "signup"}, AllCategories, {}, <<"User Authentication">>),
       Group({"dashboard", "home", "main"}, AllCategories, {}, <<"User Dashboard">>),
       Group({"profile", "settings"}, AllCategories, {}, <<"User Profile & Settings">>),
       Group({"notification", "alert"}, {"mobile-app", "web-app"}, {}, <<"Push Notifications">>),
       Group({"search", "filter"}, {"mobile-app", "web-app"}, {}, <<"Search & Filter">>),
       Group({"cart", "checkout"}, AllCategories, {"e-commerce"},
             <<"Shopping Cart", "Checkout & Payment", "Order Management">>),
       Group({"social", "share", "comment"}, AllCategories, {}, <<"Social Feed", "User Interactions">>),
       Group({"messaging", "chat"}, AllCategories, {}, <<"Real-time Chat">>),
       Group({"map", "location", "nearby"}, AllCategories, {}, <<"Location Services">>),
       Group({"camera", "photo", "upload"}, AllCategories, {}, <<"Media Upload">>) >>

GroupMatches(g, prompt, category) ==
    \/ category \in g.always
    \/ category \in g.within /\ prompt.words \cap g.needles # {}

MatchedGroups(prompt, category) ==
    SelectSeq(FeatureGroups, LAMBDA g : GroupMatches(g, prompt, category))

RECURSIVE FeaturesOf(_)
FeaturesOf(groups) ==
    IF groups = << >> THEN << >> ELSE Head(groups).features \o FeaturesOf(Tail(groups))

\* the first feature of each group
RECURSIVE FirstFeatureOf(_)
FirstFeatureOf(groups) ==
    IF groups = << >> THEN << >> ELSE <<Head(groups).features[1]>> \o FirstFeatureOf(Tail(groups))

\* a feature suggestion that was answered: the features are in the answer
Suggested == event.op = "generate" /\ event.step = "save" /\ event.code = "Ok"

\* C22 as stated: when at least one keyword group matches, the features
\* returned are one per matched group, in scan order, and no other; so their
\* number is the number of matched groups.
OneFeaturePerMatchedGroup ==
    Suggested =>
        LET matched == MatchedGroups(event.prompt, CategoryOf(projects[event.pid]))
        IN  matched # << >> =>
               /\ Len(event.data) = Len(matched)
               /\ event.data = FirstFeatureOf(matched)

\* C22, amended: when at least one keyword group matches, the features
\* returned are the fixed features of each matched group (three for the cart
\* group, two for the social group, one for every other), group after group
\* in scan order, and no other feature.
FeaturesOfMatchedGroups ==
    Suggested =>
        LET matched == MatchedGroups(event.prompt, CategoryOf(projects[event.pid]))
        IN  matched # << >> => event.data = FeaturesOf(matched)

\* C22 witness: a prompt that names the cart and the social groups is answered
\* with the three cart features and then the two social features.
CartThenSocialSuggested ==
    /\ Suggested
    /\ event.prompt.words = {"cart", "social"}
    /\ event.data = <<"Shopping Cart", "Checkout & Payment", "Order Management",
                      "Social Feed", "User Interactions">>

\* ------------------------------------------- C23
FallbackPair == <<"Basic Dashboard", "User Management">>

Hello == [words |-> {}, pad |-> 0, len |-> 5]

\* the owner of a project of category web-app asks for features
OwnerAsksWebApp ==
    /\ event.op = "generate"
    /\ Exists(event.pid)
    /\ projects[event.pid].owner = event.actor
    /\ projects[event.pid].category = "web-app"

FallbackIffNoMatch ==
    Suggested =>
        /\ event.data # << >>
        /\ event.data = FallbackPair <=>
               MatchedGroups(event.prompt, CategoryOf(projects[event.pid])) = << >>

\* C23 as stated: the fallback pair is returned exactly when no keyword group
\* matches, the result is never empty, and the request with the prompt
\* "hello" on a web-app project goes through and is answered with the pair.
FallbackAlsoForHello ==
    /\ FallbackIffNoMatch
    /\ (OwnerAsksWebApp /\ event.prompt = Hello) =>
          \/ event.step = "findOne" /\ event.code = None
          \/ event.step = "save" /\ event.code = "Ok" /\ event.data = FallbackPair

\* C23, amended: the fallback pair is returned exactly when no keyword group
\* matches, the result is never empty, a prompt of 10 to 500 characters that
\* names no keyword is answered on a web-app project with the pair, and a
\* prompt shorter than 10 characters ("hello") is turned down at validation
\* and leaves the features as they were.
FallbackForValidPrompt ==
    /\ [](/\ FallbackIffNoMatch
          /\ (OwnerAsksWebApp /\ event.prompt.words = {} /\ isLength(event.prompt, 10, 500)) =>
                \/ event.step = "findOne" /\ event.code = None
                \/ event.step = "save" /\ event.code = "Ok" /\ event.data = FallbackPair
                \/ event.step = "fail")
    /\ [][(event'.op = "generate" /\ ~isLength(event'.prompt, 10, 500)) =>
              /\ event'.code = "BadRequest"
              /\ projects' = projects /\ inflight' = inflight]_vars

\* C23 witness: on a web-app project a prompt of 40 characters that names no
\* keyword has been answered with the fallback pair.
FallbackSuggested ==
    /\ Suggested
    /\ OwnerAsksWebApp
    /\ event.prompt = [words |-> {}, pad |-> 0, len |-> 40]
    /\ event.data = FallbackPair
    /\ projects[event.pid].features = FallbackPair

\* ------------------------------------------- C24
\* the positions of the characters of a name that are not spaces
Letter(name) == {i \in 1..Len(name) : name[i] # Space}

Least(S) == CHOOSE i \in S : \A j \in S : i <= j

Most(S) == CHOOSE i \in S : \A j \in S : j <= i

\* the name has at least two tokens: a space between two of its letters
TwoTokens(name) == \E i \in Least(Letter(name))..Most(Letter(name)) : name[i] = Space

\* where the last token starts
LastStart(name) ==
    Least({i \in Letter(name) : \A j \in i..Most(Letter(name)) : j \in Letter(name)})

Upper(c) == IF c \in 97..122 THEN c - 32 ELSE c

\* an avatar was derived for a name that has a letter
Derived == event.step = "avatar" /\ Letter(users[event.actor].name) # {}

\* the initials are first letter of the first token and first letter of the
\* last token, uppercased, for a name of two tokens or more
TwoTokenInitials ==
    LET name == users[event.actor].name
    IN  (Derived /\ TwoTokens(name)) =>
            event.data.initials = <<Upper(name[Least(Letter(name))]), Upper(name[LastStart(name)])>>

\* C24 as stated: the initials are the uppercased first letters of the first
\* and the last token of a name of at least two tokens, and otherwise two
\* uppercased characters taken from the single token, also for the name "X".
InitialsAlwaysTwo ==
    LET name == users[event.actor].name
    IN  /\ TwoTokenInitials
        /\ (Derived /\ ~TwoTokens(name)) =>
              /\ Len(event.data.initials) = 2
              /\ \A i \in 1..2 : \E j \in Letter(name) : event.data.initials[i] = Upper(name[j])

\* the initials of a single token are its first two characters, uppercased
SingleTokenInitials ==
    LET name == users[event.actor].name
        first == Least(Letter(name))
    IN  (Derived /\ ~TwoTokens(name)) =>
            IF Most(Letter(name)) = first
              THEN event.data.initials = <<Upper(name[first])>>
              ELSE event.data.initials = <<Upper(name[first]), Upper(name[first + 1])>>

ColorOfPalette == Derived => event.data.color \in 0..7

\* C24, amended: the initials are the uppercased first letters of the first
\* and the last token of a name of at least two tokens, and otherwise the
\* uppercased first two characters of the single token, which is one
\* character for a token of one character ("X" gives "X"); and the server
\* and the client derive the same initials and colour for the same name,
\* every time.
InitialsFirstTwo ==
    /\ [](TwoTokenInitials /\ SingleTokenInitials /\ ColorOfPalette)
    /\ [][(Derived /\ Derived') => event'.data = event.data]_vars

\* C24 witness: the avatar of the name "X" was derived, with the initials "X".
SingleLetterDerived ==
    /\ Derived
    /\ users[event.actor].name = <<88>>
    /\ event.data.initials = <<88>>

\* the avatar of "Ada Lovelace" was derived: initials "AL" on colors[5]
\* (the hash is -878886773)
AdaLovelaceDerived ==
    /\ Derived
    /\ users[event.actor].name = AdaLovelace
    /\ event.data.initials = <<65, 76>>
    /\ event.data.color = 5

\* ------------------------------------------- C25
ScopedOps == {"view", "update", "delete", "communication", "list", "read", "typing", "status"}

\* the access an operation asks of its actor; for viewing, the admin is
\* counted among those without it, as GET /:id refuses them
HasAccess(op, actor, doc) ==
    CASE op \in {"update", "delete"} -> doc.owner = actor
      [] op = "status" -> users[actor].role = "admin" \/ doc.assignedDeveloper = actor
      [] OTHER -> doc.owner = actor \/ doc.assignedDeveloper = actor

\* the answer e was given on a project that exists to an actor without access
Denied(e) == Exists(e.pid) /\ ~HasAccess(e.op, e.actor, projects[e.pid])

\* the answer e was given on an id that no project has
Missing(e) == ~Exists(e.pid)

\* two answers to the same request of the same actor
SameRequest(e, f) ==
    /\ e.op = f.op /\ e.actor = f.actor /\ e.arg = f.arg
    /\ e.sent = f.sent /\ e.query = f.query

Lookup(e) == e.step = "findOne" /\ e.op \in ScopedOps

\* C25: an actor who asks a project-scoped operation on an existing project
\* they have no access to gets the outcome (code and data) the same request
\* gets on a project id that does not exist; the two requests are taken one
\* right after the other, in either order, so that the store is the same.
NoExistenceLeak ==
    [][(/\ Lookup(event) /\ Lookup(event')
        /\ SameRequest(event, event')
        /\ \/ Missing(event) /\ Denied(event')
           \/ Denied(event) /\ Missing(event'))
          => /\ event'.code = event.code
             /\ event'.data = event.data
             /\ event'.code \in {"NotFound", "BadRequest", "AccessDenied"}
             /\ projects' = projects]_vars

\* C25 witness: the admin, who is not a member of the stored project, sent a
\* typing indicator on it and was answered as on an unknown id.
OutsiderTypingNotFound ==
    /\ Lookup(event)
    /\ event.op = "typing"
    /\ Denied(event)
    /\ event.actor = "a1"
    /\ event.code = "NotFound"

\* ------------------------------------------- C26
\* the signature of a webhook request can be verified: there is a shared
\* secret and the signature was made with it
Verifiable(e) == e.secret # None /\ e.signature = e.secret

\* C26: a webhook request whose signature cannot be verified, because it is
\* absent or forged or because no shared secret is configured, is answered
\* with an error, runs no event branch, and changes no user, no project and
\* no request in flight.
WebhookFailsClosed ==
    [][(event'.op = "webhook" /\ ~Verifiable(event')) =>
          /\ event'.code = "BadRequest"
          /\ event'.data = << >>
          /\ users' = users
          /\ projects' = projects
          /\ inflight' = inflight]_vars

\* C26 witness: with a project stored and no shared secret configured, a
\* webhook that carries the endpoint's signature was turned down.
UnsignedWebhookRejected ==
    /\ event.op = "webhook"
    /\ event.secret = None
    /\ event.signature = "whsec"
    /\ event.code = "BadRequest"
    /\ Exists(1)

\* ------------------------------------------- C27
\* the owner-level fields
OwnerFields ==
    {"title", "description", "category", "platform", "features", "design", "technical",
     "timeline", "budget"}

\* the update request that the step answers with success
Updated(r) ==
    /\ r.op = "update" /\ r.pc = "found"
    /\ inflight' = Finish(r)
    /\ event'.op = "update" /\ event'.step = "save" /\ event'.code = "Ok"

\* C27: a successful update sets each owner-level field that the request
\* carries to the value it carries and changes no other field: status,
\* priority, owner, assignedDeveloper and the thread stay as they were, also
\* when the body names them; an update that is refused changes nothing.
UpdateWritesOwnerFieldsOnly ==
    [][event'.op = "update" =>
          IF \E r \in Requests : Updated(r)
            THEN \A r \in Requests :
                    Updated(r) =>
                        /\ Exists(r.pid) /\ r.pid \in DOMAIN projects'
                        /\ \A q \in DOMAIN projects \ {r.pid} : projects'[q] = projects[q]
                        /\ \A field \in OwnerFields :
                              projects'[r.pid][field] =
                                  IF field \in r.body.has THEN r.body[field]
                                                           ELSE projects[r.pid][field]
                        /\ \A field \in DOMAIN projects[r.pid] \ OwnerFields :
                              projects'[r.pid][field] = projects[r.pid][field]
            ELSE projects' = projects]_vars

\* C27 witness: the edit form's body (title, description, status, priority)
\* was saved: title and description are the new ones, status and priority
\* are the seeded ones.
EditFormSaved ==
    /\ event.op = "update" /\ event.step = "save" /\ event.code = "Ok"
    /\ Exists(1)
    /\ projects[1].title = "Store" /\ projects[1].description = "a store"
    /\ projects[1].status = "in-development" /\ projects[1].priority = "medium"
    /\ projects[1].platform = None

\* ------------------------------------------- C28
EmailsUnique ==
    \A u, v \in DOMAIN users : users[u].email = users[v].email => u = v

\* a step of a registration or of a developer creation that is past
\* validation and authorisation, for an e-mail that a stored user has
UsedEmail(e) ==
    /\ e.op \in {"register", "developer"}
    /\ e.step \in {"findOne", "save"}
    /\ e.code \notin {"BadRequest", "AccessDenied"}
    /\ ByEmail(e.arg) # {}

\* C28: no two stored users share an e-mail, and a registration or developer
\* creation for an e-mail that is already used is answered with the conflict
\* outcome and stores no user, also when two of them have both passed the
\* existence check before either inserts.
EmailsUniqueAndRefused ==
    /\ []EmailsUnique
    /\ [][UsedEmail(event') => (event'.code = "UserExists" /\ users' = users)]_vars

\* two registrations for one e-mail have both passed the existence check
BothChecked ==
    \E r \in Requests :
        /\ r.op = "register" /\ r.pc = "checked"
        /\ \E q \in Requests \ {r} :
              q.op = "register" /\ q.pc = "checked" /\ q.body.email = r.body.email

\* ------------------------------------------- C29
VerifiedHoldsNoToken ==
    \A u \in DOMAIN users : users[u].isVerified => users[u].verificationToken = None

\* C29: a successful verify-email sets isVerified and clears the token; a
\* verify-email with a token that no user holds (one already used, or one
\* replaced by resend-verification) fails and changes nothing; a verified
\* user stays verified and holds no verification token.
TokenOneTime ==
    /\ []VerifiedHoldsNoToken
    /\ [][/\ \A u \in DOMAIN users : users[u].isVerified => users'[u].isVerified
          /\ (event'.op = "verify" /\ event'.step = "save" /\ event'.code = "Ok") =>
                /\ users'[event'.actor].isVerified
                /\ users'[event'.actor].verificationToken = None
          /\ (event'.op = "verify" /\ event'.step = "findOne" /\ ByToken(event'.arg) = {}) =>
                /\ event'.code = "BadRequest"
                /\ users' = users]_vars

\* a user who is verified and holds a verification token
VerifiedWithToken ==
    \E u \in DOMAIN users : users[u].isVerified /\ users[u].verificationToken # None

\* ------------------------------------------- C30
\* the status-update entries that status transitions appended (the seeded
\* project has two entries from its creation and its assignment)
Transitioned(doc) == Len(doc.communication) > Len(SeedProject.communication)

\* C30: when only status transitions act on a project and all of them have
\* completed, the status that the last status-update entry of the thread
\* names is the status the project has.
LastStatusEntryMatches ==
    \A p \in DOMAIN projects :
        (inflight = EmptyBag /\ Transitioned(projects[p])) =>
            LET thread == projects[p].communication
                last == thread[Len(thread)]
            IN  /\ last.type = "status-update"
                /\ last.content = Text("Status updated to", projects[p].status)

\* two transitions to different statuses are past their lookups
TransitionsRacing ==
    \E r \in Requests :
        /\ r.op = "status"
        /\ \E q \in Requests : q.op = "status" /\ q.pid = r.pid /\ q.body.status # r.body.status

====
